---- MODULE Spec2Model ----
(***************************************************************************)
(* Model of the Code Quill snapshot action (src/src/index.ts): run()       *)
(* validates its inputs, sends one submission POST, then polls the status  *)
(* endpoint until the transaction is confirmed, failed, or the deadline    *)
(* passes.                                                                 *)
(*                                                                         *)
(* JavaScript strings are sequences of one-character strings, so that      *)
(* trim(), toLowerCase() and the trailing-slash regexp act on characters.  *)
(* JavaScript numbers produced by Number() are exact rationals n/d, or     *)
(* NaN, or +/-Infinity.  Time is Date.now() in milliseconds.               *)
(***************************************************************************)
EXTENDS Integers, Sequences, FiniteSets, TLC

(* ------------------------------ bounds -------------------------------- *)

\* Polling iterations explored per run (the code itself has no ceiling).
MaxAttempts == 3

\* The time (ms) the submission round trip may take.
SubmitDelays == {500}

\* The times (ms) a status round trip may take.
NetDelays == {0, 500}

\* How late (ms) after its delay a timer may fire.
LateDelays == {0, 500}

(* --------------------------- string helpers --------------------------- *)

IsSpace(c) == c = " "

RECURSIVE TrimStart(_)
TrimStart(s) ==
    IF s # <<>> /\ IsSpace(Head(s)) THEN TrimStart(Tail(s)) ELSE s

RECURSIVE TrimEnd(_)
TrimEnd(s) ==
    IF s # <<>> /\ IsSpace(s[Len(s)]) THEN TrimEnd(SubSeq(s, 1, Len(s) - 1)) ELSE s

\* String.prototype.trim
Trim(s) == TrimEnd(TrimStart(s))

UpperLetters ==
    <<"A","B","C","D","E","F","G","H","I","J","K","L","M",
      "N","O","P","Q","R","S","T","U","V","W","X","Y","Z">>

LowerLetters ==
    <<"a","b","c","d","e","f","g","h","i","j","k","l","m",
      "n","o","p","q","r","s","t","u","v","w","x","y","z">>

LowerChar(c) ==
    IF \E i \in 1..26 : UpperLetters[i] = c
    THEN LowerLetters[CHOOSE i \in 1..26 : UpperLetters[i] = c]
    ELSE c

\* String.prototype.toLowerCase
ToLowerCase(s) == [i \in 1..Len(s) |-> LowerChar(s[i])]

\* url.replace(/\/+$/, '')
RECURSIVE normalizeUrlNoTrailingSlash(_)
normalizeUrlNoTrailingSlash(url) ==
    IF url # <<>> /\ url[Len(url)] = "/"
    THEN normalizeUrlNoTrailingSlash(SubSeq(url, 1, Len(url) - 1))
    ELSE url

(* ------------------------------ numbers ------------------------------- *)

Fin(n, d) == [k |-> "fin", n |-> n, d |-> d]
NaN       == [k |-> "nan", n |-> 0, d |-> 1]
PosInf    == [k |-> "inf", n |-> 1, d |-> 1]

Digits == <<"0","1","2","3","4","5","6","7","8","9">>

IsDigit(c) == \E i \in 1..10 : Digits[i] = c

DigitVal(c) == (CHOOSE i \in 1..10 : Digits[i] = c) - 1

AllDigits(s) == \A i \in 1..Len(s) : IsDigit(s[i])

RECURSIVE DigitsVal(_)
DigitsVal(s) ==
    IF s = <<>> THEN 0
    ELSE 10 * DigitsVal(SubSeq(s, 1, Len(s) - 1)) + DigitVal(s[Len(s)])

RECURSIVE Pow10(_)
Pow10(e) == IF e = 0 THEN 1 ELSE 10 * Pow10(e - 1)

InfinityLit == <<"I","n","f","i","n","i","t","y">>

\* An unsigned StrDecimalLiteral: digits, optionally one "." with digits on
\* at least one side.
UnsignedDecimal(s) ==
    LET dots == {i \in 1..Len(s) : s[i] = "."} IN
    IF dots = {} THEN
        IF s # <<>> /\ AllDigits(s) THEN Fin(DigitsVal(s), 1) ELSE NaN
    ELSE IF Cardinality(dots) > 1 THEN NaN
    ELSE
        LET p    == CHOOSE i \in dots : TRUE
            ip   == SubSeq(s, 1, p - 1)
            fp   == SubSeq(s, p + 1, Len(s))
        IN  IF AllDigits(ip) /\ AllDigits(fp) /\ Len(ip) + Len(fp) > 0
            THEN Fin(DigitsVal(ip) * Pow10(Len(fp)) + DigitsVal(fp), Pow10(Len(fp)))
            ELSE NaN

Negate(x) == [x EXCEPT !.n = -x.n]

\* Number(string): StringToNumber on the decimal literals, "Infinity" and
\* the empty string; every other text is NaN.
Number(s) ==
    LET t == Trim(s)
        u == IF t # <<>> /\ t[1] \in {"-", "+"} THEN Tail(t) ELSE t
        v == IF u = InfinityLit THEN PosInf ELSE UnsignedDecimal(u)
    IN  IF t = <<>> THEN Fin(0, 1)
        ELSE IF t[1] = "-" THEN Negate(v)
        ELSE v

\* Number.isFinite
IsFinite(x) == x.k = "fin"

\* x < 1 on JavaScript numbers (every comparison with NaN is false)
LessThanOne(x) ==
    CASE x.k = "fin" -> x.n < x.d
      [] x.k = "inf" -> x.n < 0
      [] OTHER       -> FALSE

\* e >= x for an integer e (every comparison with NaN is false)
IntGeq(e, x) ==
    CASE x.k = "fin" -> e * x.d >= x.n
      [] x.k = "inf" -> x.n < 0
      [] OTHER       -> FALSE

\* The delay setTimeout uses for x * 1000 (truncated to whole milliseconds)
DelayMs(x) == (x.n * 1000) \div x.d

(* ------------------------- JavaScript values -------------------------- *)

\* A JavaScript value: undefined, null, a string (its characters), a number
\* (n/d, NaN or an infinity) or an object decoded from JSON (the function
\* from field names to values).
Undefined   == [t |-> "undefined", v |-> <<>>]
JsNull      == [t |-> "null", v |-> <<>>]
JsStr(s)    == [t |-> "string", v |-> s]
JsNumber(x) == [t |-> "number", v |-> x]
JsInt(n)    == JsNumber(Fin(n, 1))
\* A string whose characters the model does not look into (raw body text,
\* HTTP status text).
JsText(s)   == [t |-> "text", v |-> s]

\* The fields of SnapshotResponse that run() reads.
Fields ==
    {"status", "message", "error", "tx_hash", "tx_url", "confirmations",
     "manifest_cid", "commit_hash", "merkle_root"}

NoFields == [f \in Fields |-> Undefined]

JsObj(f) == [t |-> "object", v |-> f @@ NoFields]

\* ToBoolean
Truthy(x) ==
    CASE x.t = "undefined" -> FALSE
      [] x.t = "null"      -> FALSE
      [] x.t = "string"    -> x.v # <<>>
      [] x.t = "text"      -> x.v # ""
      [] x.t = "number"    -> x.v.k = "inf" \/ (x.v.k = "fin" /\ x.v.n # 0)
      [] OTHER             -> TRUE

\* data.name: a property read; a primitive has none of these properties.
Get(data, name) == IF data.t = "object" THEN data.v[name] ELSE Undefined

\* a || b
OrElse(a, b) == IF Truthy(a) THEN a ELSE b

\* A response body: its raw characters (opaque), whether JSON.parse accepts
\* them, and the value JSON.parse returns when it does.
Body(src, parses, value) == [src |-> src, parses |-> parses, value |-> value]

\* parseJsonSafely: undefined for an empty body and for one JSON.parse rejects
parseJsonSafely(text) ==
    IF text.src = "" THEN Undefined
    ELSE IF ~text.parses THEN Undefined
    ELSE text.value

\* Response.ok
ResOk(status) == status \in 200..299

\* postJson's result for a response res = [status, statusText, text]
postJson(res) ==
    [ok         |-> ResOk(res.status),
     status     |-> res.status,
     statusText |-> res.statusText,
     text       |-> res.text,
     data       |-> parseJsonSafely(res.text)]

(* ------------------------------ messages ------------------------------ *)

\* A message is the sequence of the parts of its template literal: the
\* literal chunks and the interpolated values.
Lit(s) == [k |-> "lit", x |-> s]
Val(x) == [k |-> "val", x |-> x]

Info(parts)      == [level |-> "info", parts |-> parts]
SetFailed(parts) == [level |-> "failed", parts |-> parts]

\* x === y on JavaScript values of the kinds above
SameValue(x, y) == x.t = y.t /\ x = y

\* The message interpolates the value x.
Mentions(msg, x) ==
    \E i \in 1..Len(msg.parts) :
        msg.parts[i].k = "val" /\ SameValue(msg.parts[i].x, x)

\* The message has the literal chunk s.
HasLit(msg, s) ==
    \E i \in 1..Len(msg.parts) : msg.parts[i].k = "lit" /\ msg.parts[i].x = s

(* ------------------------- request building --------------------------- *)

\* x && x.trim().length > 0
Supplied(s) == s # <<>> /\ Len(Trim(s)) > 0

\* An optional numeric input: Number(input.trim()) when supplied, else dflt
NumberInput(s, dflt) == IF Supplied(s) THEN Number(Trim(s)) ELSE dflt

DefaultConfirmations == 1
DefaultPollIntervalSeconds == 5
DefaultMaxWaitSeconds == 600

\* !Number.isFinite(x) || x < 1
BelowOneOrNotFinite(x) == ~IsFinite(x) \/ LessThanOne(x)

NoRequest ==
    [githubId |-> NaN, branch |-> <<>>, confirmations |-> NaN,
     pollIntervalSeconds |-> NaN, maxWaitSeconds |-> NaN,
     apiUrl |-> <<>>, apiKey |-> <<>>, apiUrlNormalized |-> <<>>,
     statusApiUrl |-> <<>>]

Rejected(kind, parts) ==
    [ok |-> FALSE, kind |-> kind, failure |-> SetFailed(parts), req |-> NoRequest]

\* The branch run() settles on: the trimmed input, else GITHUB_REF_NAME || ''
ResolveBranch(in, ev) ==
    IF Supplied(in["branch"]) THEN Trim(in["branch"]) ELSE ev["GITHUB_REF_NAME"]

\* The github id text run() settles on: trimmed input || trimmed environment
ResolveGithubIdStr(in, ev) ==
    LET fromInput == IF Supplied(in["github-id"]) THEN Trim(in["github-id"]) ELSE <<>>
        fromEnv   == IF Supplied(ev["GITHUB_REPOSITORY_ID"])
                     THEN Trim(ev["GITHUB_REPOSITORY_ID"]) ELSE <<>>
    IN  IF fromInput # <<>> THEN fromInput ELSE fromEnv

\* ResolveStatusApiUrl with the status URL derived from the endpoint as
\* supplied, trailing slashes kept.
ResolveStatusApiUrlVerbatim(in) ==
    IF Supplied(in["status-api-url"]) THEN Trim(in["status-api-url"])
    ELSE in["api-url"] \o <<"/","s","t","a","t","u","s">>

\* statusApiUrlInput.trim() when supplied, else `${apiUrlNormalized}/status`
ResolveStatusApiUrl(in) ==
    IF Supplied(in["status-api-url"]) THEN Trim(in["status-api-url"])
    ELSE normalizeUrlNoTrailingSlash(in["api-url"]) \o <<"/","s","t","a","t","u","s">>

\* run() from its first line to the submission call: the request it builds,
\* or the failure it reports (the first check that fails, in code order).
Build(in, ev) ==
    LET githubIdStr         == ResolveGithubIdStr(in, ev)
        githubId            == Number(githubIdStr)
        branch              == ResolveBranch(in, ev)
        confirmations       == NumberInput(in["confirmations"], Fin(DefaultConfirmations, 1))
        pollIntervalSeconds == NumberInput(in["poll-interval-seconds"],
                                           Fin(DefaultPollIntervalSeconds, 1))
        maxWaitSeconds      == NumberInput(in["max-wait-seconds"],
                                           Fin(DefaultMaxWaitSeconds, 1))
    IN
    IF in["api-url"] = <<>> THEN
        Rejected("Exception", <<Lit("Input required and not supplied: api-url")>>)
    ELSE IF in["api-key"] = <<>> THEN
        Rejected("Exception", <<Lit("Input required and not supplied: api-key")>>)
    ELSE IF githubIdStr = <<>> THEN
        Rejected("MissingIdentifier", <<Lit("Could not determine github-id. Pass the \"github-id\" input or ensure GITHUB_REPOSITORY_ID is set.")>>)
    ELSE IF ~IsFinite(githubId) THEN
        Rejected("InvalidIdentifier",
                 <<Lit("Invalid github-id: \""), Val(JsStr(githubIdStr)),
                   Lit("\" is not a finite number.")>>)
    ELSE IF branch = <<>> THEN
        Rejected("MissingBranch", <<Lit("Branch could not be determined. Pass inputs.branch or ensure GITHUB_REF_NAME is set.")>>)
    ELSE IF BelowOneOrNotFinite(confirmations) THEN
        Rejected("InvalidConfirmations",
                 <<Lit("Invalid confirmations: \""), Val(JsStr(in["confirmations"])),
                   Lit("\". Must be a number >= 1.")>>)
    ELSE IF BelowOneOrNotFinite(pollIntervalSeconds) THEN
        Rejected("InvalidPollInterval",
                 <<Lit("Invalid poll-interval-seconds: \""),
                   Val(JsStr(in["poll-interval-seconds"])),
                   Lit("\". Must be a number >= 1.")>>)
    ELSE IF BelowOneOrNotFinite(maxWaitSeconds) THEN
        Rejected("InvalidMaxWait",
                 <<Lit("Invalid max-wait-seconds: \""), Val(JsStr(in["max-wait-seconds"])),
                   Lit("\". Must be a number >= 1.")>>)
    ELSE
        [ok |-> TRUE, kind |-> "Built", failure |-> Info(<<>>),
         req |-> [githubId |-> githubId, branch |-> branch,
                  confirmations |-> confirmations,
                  pollIntervalSeconds |-> pollIntervalSeconds,
                  maxWaitSeconds |-> maxWaitSeconds,
                  apiUrl |-> in["api-url"], apiKey |-> in["api-key"],
                  apiUrlNormalized |-> normalizeUrlNoTrailingSlash(in["api-url"]),
                  statusApiUrl |-> ResolveStatusApiUrl(in)]]

(* ------------------------------- state -------------------------------- *)

VARIABLES
    inputs,          \* core.getInput(name) for every input name
    env,             \* process.env: GITHUB_REPOSITORY_ID, GITHUB_REF_NAME
    pc,              \* where run() is: start, submitting, loop, polling, sleeping, done
    now,             \* Date.now(), ms
    req,             \* run()'s validated locals (githubId ... statusApiUrl)
    submit,          \* const submit: the postJson result of the submission
    txHash,          \* const txHash
    startedAt,       \* const startedAt
    attempt,         \* let attempt
    elapsedSeconds,  \* const elapsedSeconds of the current iteration
    inflight,        \* the fetch() awaiting its response, if any
    poll,            \* const poll of the current iteration
    outputs,         \* core.setOutput values, by output name
    log,             \* the core.info / core.setFailed messages of the latest step
    outcome,         \* which return of run() ended it
    nSubmit,         \* submission POSTs sent
    nPoll,           \* status POSTs sent
    nSleep,          \* sleep() calls made
    nFailed,         \* core.setFailed calls made
    pendingOnly      \* every poll that led to a sleep was answered "still pending"

vars ==
    <<inputs, env, pc, now, req, submit, txHash, startedAt, attempt,
      elapsedSeconds, inflight, poll, outputs, log, outcome, nSubmit, nPoll,
      nSleep, nFailed, pendingOnly>>

OutputNames == {"tx-hash", "commit-hash", "manifest-cid", "merkle-root"}

NoFetch == [kind |-> "none"]

\* No postJson result yet.
NoPoll ==
    [ok |-> FALSE, status |-> 0, statusText |-> "", text |-> Body("", FALSE, Undefined),
     data |-> Undefined]

(* --------------------------- the environment --------------------------- *)

ApiUrlInputs    == {<<>>, <<"u">>, <<"u","/","/">>}
ApiKeyInputs    == {<<>>, <<"k">>}
StatusUrlInputs == {<<>>, <<" ","s"," ">>}
GithubIdInputs  == {<<>>, <<"7">>, <<"x">>}
GithubIdEnvs    == {<<>>, <<" ","9"," ">>}
BranchInputs    == {<<>>, <<" ","m"," ">>}
RefNameEnvs     == {<<>>, <<" ">>}
ConfirmationsInputs == {<<>>, <<"0">>, <<"2">>}
PollIntervalInputs  == {<<>>, <<"1">>, <<"x">>}
MaxWaitInputs       == {<<>>, <<"2">>, <<"1",".","5">>, <<"0",".","5">>}

S_confirmed == <<"c","o","n","f","i","r","m","e","d">>
S_failed    == <<"f","a","i","l","e","d">>

\* Responses the snapshot endpoint may give.
SubmitResponses ==
    <<[status |-> 422, statusText |-> "Unprocessable Entity",
       text |-> Body("{error}", TRUE, JsObj("error" :> JsStr(<<"M","i","s","s">>)))],
      [status |-> 500, statusText |-> "Internal Server Error",
       text |-> Body("<html>", FALSE, Undefined)],
      [status |-> 502, statusText |-> "Bad Gateway", text |-> Body("", FALSE, Undefined)],
      [status |-> 400, statusText |-> "Bad Request",
       text |-> Body("{error:''}", TRUE, JsObj("error" :> JsStr(<<>>)))],
      [status |-> 200, statusText |-> "OK", text |-> Body("", FALSE, Undefined)],
      [status |-> 200, statusText |-> "OK", text |-> Body("<html>", FALSE, Undefined)],
      [status |-> 200, statusText |-> "OK", text |-> Body("null", TRUE, JsNull)],
      [status |-> 200, statusText |-> "OK", text |-> Body("5", TRUE, JsInt(5))],
      [status |-> 200, statusText |-> "OK",
       text |-> Body("{commit,merkle}", TRUE,
                     JsObj(("commit_hash" :> JsStr(<<"c","1">>))
                           @@ ("merkle_root" :> JsStr(<<"r","1">>))))],
      [status |-> 200, statusText |-> "OK",
       text |-> Body("{tx:'',commit}", TRUE,
                     JsObj(("tx_hash" :> JsStr(<<>>))
                           @@ ("commit_hash" :> JsStr(<<"c","1">>))))],
      [status |-> 200, statusText |-> "OK",
       text |-> Body("{tx,commit}", TRUE,
                     JsObj(("tx_hash" :> JsStr(<<"t","1">>))
                           @@ ("commit_hash" :> JsStr(<<"c","1">>))))],
      [status |-> 201, statusText |-> "Created",
       text |-> Body("{status,tx,url,commit:'',manifest,merkle}", TRUE,
                     JsObj(("status" :> JsStr(<<"o","k">>))
                           @@ ("tx_hash" :> JsStr(<<"t","2">>))
                           @@ ("tx_url" :> JsStr(<<"e","/","t","2">>))
                           @@ ("commit_hash" :> JsStr(<<>>))
                           @@ ("manifest_cid" :> JsStr(<<"Q","m">>))
                           @@ ("merkle_root" :> JsStr(<<"r","2">>))))]>>

\* Responses the status endpoint may give.
PollResponses ==
    <<[status |-> 500, statusText |-> "Internal Server Error",
       text |-> Body("{status:failed,message}", TRUE,
                     JsObj(("status" :> JsStr(S_failed))
                           @@ ("message" :> JsStr(<<"d","o","w","n">>))))],
      [status |-> 404, statusText |-> "Not Found",
       text |-> Body("{status:confirmed}", TRUE, JsObj("status" :> JsStr(S_confirmed)))],
      [status |-> 503, statusText |-> "Service Unavailable",
       text |-> Body("", FALSE, Undefined)],
      [status |-> 200, statusText |-> "OK", text |-> Body("", FALSE, Undefined)],
      [status |-> 200, statusText |-> "OK", text |-> Body("<html>", FALSE, Undefined)],
      [status |-> 200, statusText |-> "OK", text |-> Body("null", TRUE, JsNull)],
      [status |-> 200, statusText |-> "OK",
       text |-> Body("{status:pending}", TRUE,
                     JsObj("status" :> JsStr(<<"p","e","n","d","i","n","g">>)))],
      [status |-> 200, statusText |-> "OK", text |-> Body("{}", TRUE, JsObj(<<>>))],
      [status |-> 200, statusText |-> "OK",
       text |-> Body("{status:1}", TRUE, JsObj("status" :> JsInt(1)))],
      [status |-> 200, statusText |-> "OK",
       text |-> Body("{status:confirmed,confirmations:3}", TRUE,
                     JsObj(("status" :> JsStr(S_confirmed))
                           @@ ("confirmations" :> JsInt(3))))],
      [status |-> 200, statusText |-> "OK",
       text |-> Body("{status:confirmed,confirmations:0}", TRUE,
                     JsObj(("status" :> JsStr(S_confirmed))
                           @@ ("confirmations" :> JsInt(0))))],
      [status |-> 200, statusText |-> "OK",
       text |-> Body("{status:CONFIRMED}", TRUE,
                     JsObj("status" :> JsStr(<<"C","O","N","F","I","R","M","E","D">>)))],
      [status |-> 200, statusText |-> "OK",
       text |-> Body("{status:Failed,error}", TRUE,
                     JsObj(("status" :> JsStr(<<"F","a","i","l","e","d">>))
                           @@ ("error" :> JsStr(<<"r","e","v">>))))],
      [status |-> 200, statusText |-> "OK",
       text |-> Body("{status:failed}", TRUE, JsObj("status" :> JsStr(S_failed)))]>>

\* run() has not started: nothing sent, nothing set, nothing reported.
Fresh ==
    /\ pc = "start"
    /\ now = 0
    /\ req = NoRequest
    /\ submit = NoPoll
    /\ txHash = Undefined
    /\ startedAt = 0
    /\ attempt = 0
    /\ elapsedSeconds = 0
    /\ inflight = NoFetch
    /\ poll = NoPoll
    /\ outputs = [o \in OutputNames |-> Undefined]
    /\ log = <<>>
    /\ outcome = "running"
    /\ nSubmit = 0
    /\ nPoll = 0
    /\ nSleep = 0
    /\ nFailed = 0
    /\ pendingOnly = TRUE

Init ==
    /\ \E a \in ApiUrlInputs, k \in ApiKeyInputs, s \in StatusUrlInputs,
          g \in GithubIdInputs, b \in BranchInputs, c \in ConfirmationsInputs,
          p \in PollIntervalInputs, m \in MaxWaitInputs :
            inputs = ("api-url" :> a) @@ ("api-key" :> k) @@ ("status-api-url" :> s)
                     @@ ("github-id" :> g) @@ ("branch" :> b) @@ ("confirmations" :> c)
                     @@ ("poll-interval-seconds" :> p) @@ ("max-wait-seconds" :> m)
    /\ \E g \in GithubIdEnvs, r \in RefNameEnvs :
            env = ("GITHUB_REPOSITORY_ID" :> g) @@ ("GITHUB_REF_NAME" :> r)
    /\ Fresh

\* The texts the inputs of the validation are drawn from when the
\* validation is looked at on its own: signs, fractions, Infinity, texts
\* that are no number, blanks.
BuilderApiUrls       == {<<>>, <<"u","/">>}
BuilderGithubIds     == {<<>>, <<"7">>, <<"7",".","5">>, <<"x">>, <<"I","n","f","i","n","i","t","y">>}
BuilderGithubIdEnvs  == {<<>>, <<"9">>}
BuilderBranches      == {<<>>, <<"m">>}
BuilderRefNames      == {<<>>, <<" ">>, <<"r">>}
BuilderConfirmations == {<<>>, <<"0">>, <<"1">>, <<"1",".","5">>, <<"-","2">>, <<"x">>}
BuilderPollIntervals == {<<>>, <<"0",".","5">>, <<"1">>, <<"I","n","f","i","n","i","t","y">>}
BuilderMaxWaits      == {<<>>, <<"0">>, <<"1">>}

BuilderInit ==
    /\ \E a \in BuilderApiUrls, k \in ApiKeyInputs, g \in BuilderGithubIds,
          b \in BuilderBranches, c \in BuilderConfirmations,
          p \in BuilderPollIntervals, m \in BuilderMaxWaits :
            inputs = ("api-url" :> a) @@ ("api-key" :> k) @@ ("status-api-url" :> <<>>)
                     @@ ("github-id" :> g) @@ ("branch" :> b) @@ ("confirmations" :> c)
                     @@ ("poll-interval-seconds" :> p) @@ ("max-wait-seconds" :> m)
    /\ \E g \in BuilderGithubIdEnvs, r \in BuilderRefNames :
            env = ("GITHUB_REPOSITORY_ID" :> g) @@ ("GITHUB_REF_NAME" :> r)
    /\ Fresh

\* The timing inputs of the runs in which the polling loop is looked at on
\* its own, all other inputs being in order: whole and fractional seconds.
PollingPollIntervals == {<<"1">>, <<"1",".","5">>}
PollingMaxWaits      == {<<"2">>, <<"1",".","5">>}

PollingInit ==
    /\ \E p \in PollingPollIntervals, m \in PollingMaxWaits :
            inputs = ("api-url" :> <<"u">>) @@ ("api-key" :> <<"k">>)
                     @@ ("status-api-url" :> <<>>) @@ ("github-id" :> <<"7">>)
                     @@ ("branch" :> <<" ","m"," ">>) @@ ("confirmations" :> <<>>)
                     @@ ("poll-interval-seconds" :> p) @@ ("max-wait-seconds" :> m)
    /\ env = ("GITHUB_REPOSITORY_ID" :> <<>>) @@ ("GITHUB_REF_NAME" :> <<>>)
    /\ Fresh

(* ------------------------------- run() --------------------------------- *)

\* const submitData = submit.data
submitData == submit.data

\* OutputField with manifest-cid copied from merkle_root (a pasted line
\* left unedited).
OutputFieldPasted(o) ==
    CASE o = "tx-hash"      -> "tx_hash"
      [] o = "commit-hash"  -> "commit_hash"
      [] o = "manifest-cid" -> "merkle_root"
      [] o = "merkle-root"  -> "merkle_root"

\* The fields setOutput copies, by output name (index.ts 160-162, 171).
OutputField(o) ==
    CASE o = "tx-hash"      -> "tx_hash"
      [] o = "commit-hash"  -> "commit_hash"
      [] o = "manifest-cid" -> "manifest_cid"
      [] o = "merkle-root"  -> "merkle_root"

\* if (data.field) core.setOutput(name, data.field)
OutputSet(data, field) == Truthy(Get(data, field))

\* The outputs after lines 160-162 for a decoded submission response.
OutputsAfter(old, data) ==
    [o \in OutputNames |->
        IF o # "tx-hash" /\ OutputSet(data, OutputField(o))
        THEN Get(data, OutputField(o))
        ELSE old[o]]

\* if (!submitData)
NoData(data) == ~Truthy(data)

\* NoTxHash with the confirmation wait made best-effort: a response without
\* tx_hash is let through to the polling loop.
NoTxHashIgnored(data) == FALSE

\* if (!txHash), for txHash = submitData.tx_hash
NoTxHash(data) == ~Truthy(Get(data, "tx_hash"))

\* a && b
AndThen(a, b) == IF Truthy(a) THEN b ELSE a

\* DetailParts with the two tests exchanged: the raw text is taken before
\* the structured detail.
DetailPartsTextFirst(detail, text) ==
    IF text.src # "" THEN <<Lit(" - "), Val(JsText(text.src))>>
    ELSE IF Truthy(detail) THEN <<Lit(" - "), Val(detail)>>
    ELSE <<>>

\* (detail ? ` - ${detail}` : text ? ` - ${text}` : '')
DetailParts(detail, text) ==
    IF Truthy(detail) THEN <<Lit(" - "), Val(detail)>>
    ELSE IF text.src # "" THEN <<Lit(" - "), Val(JsText(text.src))>>
    ELSE <<>>

\* (submitData.tx_url ? ` (${submitData.tx_url})` : '')
TxUrlParts(data) ==
    IF Truthy(Get(data, "tx_url"))
    THEN <<Lit(" ("), Val(Get(data, "tx_url")), Lit(")")>>
    ELSE <<>>

\* x ?? 'n/a'
OrNA(x) == IF x.t \in {"undefined", "null"} THEN Lit("n/a") ELSE Val(x)

\* Finish with the return after the TransactionFailed report left out: the
\* loop goes on to its sleep.
FinishFallsThrough(kind, msgs) ==
    /\ pc' = IF kind = "TransactionFailed" THEN "sleeping" ELSE "done"
    /\ outcome' = kind
    /\ log' = msgs
    /\ nFailed' = nFailed + Cardinality({i \in 1..Len(msgs) : msgs[i].level = "failed"})

\* run() returns: the messages of the step, and which return it was.
Finish(kind, msgs) ==
    /\ pc' = "done"
    /\ outcome' = kind
    /\ log' = msgs
    /\ nFailed' = nFailed + Cardinality({i \in 1..Len(msgs) : msgs[i].level = "failed"})

\* catch (err) { core.setFailed(err?.message ?? String(err)) }
Catch(message, before) ==
    Finish("Exception", before \o <<SetFailed(<<Lit(message)>>)>>)

\* Lines 61-140: read and validate the inputs, then send the submission.
Start ==
    /\ pc = "start"
    /\ LET b == Build(inputs, env) IN
        IF ~b.ok THEN
            /\ Finish(b.kind, <<b.failure>>)
            /\ UNCHANGED <<req, inflight, nSubmit>>
        ELSE
            /\ req' = b.req
            /\ log' = <<Info(<<Lit("Triggering Code Quill snapshot for repo "),
                               Val(JsNumber(b.req.githubId)), Lit(" on branch \""),
                               Val(JsStr(b.req.branch)), Lit("\"...")>>)>>
            /\ inflight' = [kind |-> "submit", url |-> b.req.apiUrlNormalized,
                            apiKey |-> b.req.apiKey,
                            payload |-> [github_id |-> b.req.githubId,
                                         branch |-> b.req.branch]]
            /\ nSubmit' = nSubmit + 1
            /\ pc' = "submitting"
            /\ UNCHANGED <<outcome, nFailed>>
    /\ UNCHANGED <<inputs, env, now, submit, txHash, startedAt, attempt,
                   elapsedSeconds, poll, outputs, nPoll, nSleep, pendingOnly>>

\* Lines 140-177: the submission response arrives after d ms.
SubmitReturns(res, d) ==
    /\ pc = "submitting"
    /\ now' = now + d
    /\ inflight' = NoFetch
    /\ submit' = postJson(res)
    /\ LET data   == submit'.data
           detail == AndThen(data, Get(data, "error"))
           accepted == Info(<<Lit("Snapshot accepted by Code Quill: status="),
                              OrNA(Get(data, "status"))>>)
       IN
        IF ~submit'.ok THEN
            /\ Finish("SubmissionRejected",
                      <<SetFailed(<<Lit("Code Quill snapshot failed: HTTP "),
                                    Val(JsInt(submit'.status)), Lit(" "),
                                    Val(JsText(submit'.statusText))>>
                                  \o DetailParts(detail, submit'.text))>>)
            /\ UNCHANGED <<txHash, startedAt, outputs>>
        ELSE IF NoData(data) THEN
            /\ Finish("EmptyResponse",
                      <<SetFailed(<<Lit("Snapshot accepted but response body was empty or not JSON.")>>)>>)
            /\ UNCHANGED <<txHash, startedAt, outputs>>
        ELSE IF NoTxHash(data) THEN
            /\ outputs' = OutputsAfter(outputs, data)
            /\ Finish("NoTransactionId",
                      <<accepted,
                        SetFailed(<<Lit("Snapshot response did not include tx_hash, cannot wait for confirmation.")>>)>>)
            /\ UNCHANGED <<txHash, startedAt>>
        ELSE
            /\ outputs' = [OutputsAfter(outputs, data) EXCEPT !["tx-hash"] = Get(data, "tx_hash")]
            /\ txHash' = Get(data, "tx_hash")
            /\ log' = <<accepted,
                        Info(<<Lit("Transaction sent: "), Val(Get(data, "tx_hash"))>>)>>
                       \o (IF Truthy(Get(data, "tx_url"))
                           THEN <<Info(<<Lit("Explorer: "), Val(Get(data, "tx_url"))>>)>>
                           ELSE <<>>)
                       \o <<Info(<<Lit("Waiting for confirmation ("),
                                   Val(JsNumber(req.confirmations)), Lit(" confs, up to "),
                                   Val(JsNumber(req.maxWaitSeconds)), Lit("s)...")>>)>>
            /\ startedAt' = now'
            /\ pc' = "loop"
            /\ UNCHANGED <<outcome, nFailed>>
    /\ UNCHANGED <<inputs, env, req, attempt, elapsedSeconds, poll, nSubmit, nPoll,
                   nSleep, pendingOnly>>

\* fetch() or res.text() of the submission throws: the catch-all reports it.
SubmitThrows ==
    /\ pc = "submitting"
    /\ inflight' = NoFetch
    /\ Catch("fetch failed", <<>>)
    /\ UNCHANGED <<inputs, env, now, req, submit, txHash, startedAt, attempt,
                   elapsedSeconds, poll, outputs, nSubmit, nPoll, nSleep, pendingOnly>>

\* Math.floor((Date.now() - startedAt) / 1000)
ElapsedSeconds(t, t0) == (t - t0) \div 1000

\* elapsedSeconds >= maxWaitSeconds
DeadlineReached(e, maxWaitSeconds) == IntGeq(e, maxWaitSeconds)

\* Lines 180-194: the head of the loop, up to the status call.
LoopTop ==
    /\ pc = "loop"
    /\ LET e == ElapsedSeconds(now, startedAt) IN
        /\ elapsedSeconds' = e
        /\ IF DeadlineReached(e, req.maxWaitSeconds) THEN
               /\ Finish("ConfirmationTimeout",
                         <<SetFailed(<<Lit("Timed out after "), Val(JsInt(e)),
                                       Lit("s while waiting for confirmation. tx_hash="),
                                       Val(txHash)>>
                                     \o TxUrlParts(submitData))>>)
               /\ UNCHANGED <<attempt, inflight, nPoll>>
           ELSE
               /\ attempt < MaxAttempts
               /\ attempt' = attempt + 1
               /\ inflight' = [kind |-> "poll", url |-> req.statusApiUrl,
                               apiKey |-> req.apiKey,
                               payload |-> [tx_hash |-> txHash,
                                            confirmations |-> req.confirmations]]
               /\ nPoll' = nPoll + 1
               /\ pc' = "polling"
               /\ log' = <<>>
               /\ UNCHANGED <<outcome, nFailed>>
    /\ UNCHANGED <<inputs, env, now, req, submit, txHash, startedAt, poll,
                   outputs, nSubmit, nSleep, pendingOnly>>

\* Sleep with the await left out: the timer is started and the loop goes
\* on at once.
SleepNotAwaited(msg) ==
    /\ log' = <<msg>>
    /\ nSleep' = nSleep + 1
    /\ pc' = "loop"
    /\ UNCHANGED <<outcome, nFailed>>

\* await sleep(pollIntervalSeconds * 1000); continue
Sleep(msg) ==
    /\ log' = <<msg>>
    /\ nSleep' = nSleep + 1
    /\ pc' = "sleeping"
    /\ UNCHANGED <<outcome, nFailed>>

\* (pollData.status || '')
StatusOrEmpty(data) == OrElse(Get(data, "status"), JsStr(<<>>))

\* typeof pollData.confirmations === 'number' ? pollData.confirmations : undefined
Confs(data) ==
    IF Get(data, "confirmations").t = "number" THEN Get(data, "confirmations")
    ELSE Undefined

\* `Transaction confirmed${confs ? ` (${confs} confirmations)` : ''}.`
ConfirmedMessage(confs) ==
    Info(<<Lit("Transaction confirmed")>>
         \o (IF Truthy(confs) THEN <<Lit(" ("), Val(confs), Lit(" confirmations)")>>
             ELSE <<>>)
         \o <<Lit(".")>>)

\* PollVerdict with the last branch taken for success: any status that is
\* not 'failed' or 'pending' counts as confirmed.
PollVerdictDefaultConfirmed(data) ==
    LET st == StatusOrEmpty(data) IN
    IF st.t # "string" THEN "TypeError"
    ELSE IF ToLowerCase(st.v) = S_failed THEN "failed"
    ELSE IF ToLowerCase(st.v) = <<"p","e","n","d","i","n","g">> THEN "pending"
    ELSE "confirmed"

\* How lines 215-233 take a decoded 2xx poll body: toLowerCase is not a
\* function of a value that is not a string.
PollVerdict(data) ==
    LET st == StatusOrEmpty(data) IN
    IF st.t # "string" THEN "TypeError"
    ELSE IF ToLowerCase(st.v) = S_confirmed THEN "confirmed"
    ELSE IF ToLowerCase(st.v) = S_failed THEN "failed"
    ELSE "pending"

\* PollClass with the body read before the HTTP status: a decoded body
\* decides, whatever the status code.
PollClassBodyFirst(p) ==
    IF Truthy(p.data) THEN PollVerdict(p.data)
    ELSE IF ~p.ok THEN "http"
    ELSE "nodata"

\* The branch lines 197-233 take for a postJson result p.
PollClass(p) ==
    IF ~p.ok THEN "http"
    ELSE IF ~Truthy(p.data) THEN "nodata"
    ELSE PollVerdict(p.data)

\* Lines 194-233: the status response arrives after d ms.
PollReturns(res, d) ==
    /\ pc = "polling"
    /\ now' = now + d
    /\ inflight' = NoFetch
    /\ LET p      == postJson(res)
           data   == p.data
           detail == AndThen(data, OrElse(Get(data, "message"), Get(data, "error")))
           class  == PollClass(p)
       IN
        /\ poll' = p
        /\ pendingOnly' = IF class \in {"http", "nodata", "pending"}
                          THEN pendingOnly /\ class = "pending"
                          ELSE pendingOnly
        /\ IF class = "http" THEN
               Sleep(Info(<<Lit("Status check attempt #"), Val(JsInt(attempt)),
                            Lit(" got HTTP "), Val(JsInt(p.status)), Lit(" "),
                            Val(JsText(p.statusText))>>
                          \o DetailParts(detail, p.text)))
           ELSE IF class = "nodata" THEN
               Sleep(Info(<<Lit("Status check attempt #"), Val(JsInt(attempt)),
                            Lit(" returned non-JSON/empty body. Waiting...")>>))
           ELSE IF class = "TypeError" THEN
               /\ Catch("(pollData.status || \"\").toLowerCase is not a function", <<>>)
               /\ UNCHANGED nSleep
           ELSE IF class = "confirmed" THEN
               /\ Finish("Confirmed", <<ConfirmedMessage(Confs(data))>>)
               /\ UNCHANGED nSleep
           ELSE IF class = "failed" THEN
               /\ Finish("TransactionFailed",
                         <<SetFailed(<<Lit("Code Quill transaction failed: "),
                                       LET m == OrElse(Get(data, "message"), Get(data, "error"))
                                       IN  IF Truthy(m) THEN Val(m)
                                           ELSE Lit("Transaction failed on-chain."),
                                       Lit(" tx_hash="), Val(txHash)>>)>>)
               /\ UNCHANGED nSleep
           ELSE
               Sleep(Info(<<Lit("Still pending after "), Val(JsInt(elapsedSeconds)),
                            Lit("s (attempt #"), Val(JsInt(attempt)),
                            Lit("). tx_hash="), Val(txHash)>>))
    /\ UNCHANGED <<inputs, env, req, submit, txHash, startedAt, attempt,
                   elapsedSeconds, outputs, nSubmit, nPoll>>

\* PollThrows with the status call wrapped in a try of its own: a call
\* that throws is logged and the loop sleeps, as for a transient response.
PollThrowsTransient ==
    /\ pc = "polling"
    /\ inflight' = NoFetch
    /\ Sleep(Info(<<Lit("fetch failed")>>))
    /\ UNCHANGED <<inputs, env, now, req, submit, txHash, startedAt, attempt,
                   elapsedSeconds, poll, outputs, nSubmit, nPoll, pendingOnly>>

\* fetch() or res.text() of a status call throws: the catch-all reports it.
PollThrows ==
    /\ pc = "polling"
    /\ inflight' = NoFetch
    /\ Catch("fetch failed", <<>>)
    /\ UNCHANGED <<inputs, env, now, req, submit, txHash, startedAt, attempt,
                   elapsedSeconds, poll, outputs, nSubmit, nPoll, nSleep, pendingOnly>>

\* SleepDone with the retry wrapped around the submission as well: after
\* the sleep the snapshot request is sent again.
SleepDoneResubmit(late) ==
    /\ pc = "sleeping"
    /\ now' = now + DelayMs(req.pollIntervalSeconds) + late
    /\ pc' = "submitting"
    /\ log' = <<>>
    /\ poll' = NoPoll
    /\ inflight' = [kind |-> "submit", url |-> req.apiUrlNormalized,
                    apiKey |-> req.apiKey,
                    payload |-> [github_id |-> req.githubId, branch |-> req.branch]]
    /\ nSubmit' = nSubmit + 1
    /\ UNCHANGED <<inputs, env, req, submit, txHash, startedAt, attempt,
                   elapsedSeconds, outputs, outcome, nPoll, nSleep, nFailed,
                   pendingOnly>>

\* The timer of sleep(pollIntervalSeconds * 1000) fires, late ms after its delay.
SleepDone(late) ==
    /\ pc = "sleeping"
    /\ now' = now + DelayMs(req.pollIntervalSeconds) + late
    /\ pc' = "loop"
    /\ log' = <<>>
    /\ poll' = NoPoll
    /\ UNCHANGED <<inputs, env, req, submit, txHash, startedAt, attempt,
                   elapsedSeconds, inflight, outputs, outcome, nSubmit, nPoll,
                   nSleep, nFailed, pendingOnly>>

Next ==
    \/ Start
    \/ \E i \in 1..Len(SubmitResponses), d \in SubmitDelays :
            SubmitReturns(SubmitResponses[i], d)
    \/ SubmitThrows
    \/ LoopTop
    \/ PollThrows
    \/ \E i \in 1..Len(PollResponses), d \in NetDelays :
            PollReturns(PollResponses[i], d)
    \/ \E late \in LateDelays : SleepDone(late)

Spec == Init /\ [][Next]_vars

\* run() up to its submission call, over the wider inputs.
BuilderNext == Start

BuilderSpec == BuilderInit /\ [][BuilderNext]_vars

\* run() over the timing inputs of PollingInit.
PollingSpec == PollingInit /\ [][Next]_vars

(* ------------------------------- claims -------------------------------- *)

\* The poll result of this iteration is a response (not the placeholder).
PollReceived == poll.status # 0

\* The submission response has been received.
SubmitReceived == submit.status # 0

\* The response p is 2xx, its body is JSON, and its status field is the
\* string word in some letter case.
SaysStatus(p, word) ==
    /\ p.status \in 200..299
    /\ p.text.src # "" /\ p.text.parses
    /\ Get(p.text.value, "status").t = "string"
    /\ ToLowerCase(Get(p.text.value, "status").v) = word

\* C1 as stated: a run ends in success only if the response that ended the
\* loop said 'confirmed' and carried a confirmation count that is at least
\* requiredConfirmations.
C1_SuccessNeedsCountAtLeastRequired ==
    outcome = "Confirmed" =>
        /\ SaysStatus(poll, S_confirmed)
        /\ Get(poll.text.value, "confirmations").t = "number"
        /\ IntGeq(Get(poll.text.value, "confirmations").v.n, req.confirmations)

\* C1 amended: a run ends in success only after at least one poll, without
\* any failure report, and only if the response that ended the loop had a
\* 2xx status and a JSON body whose status is 'confirmed' in some letter
\* case; the required depth is what every poll payload carries, and the
\* count in the response is not compared with it.
C1_SuccessOnlyOnConfirmedStatus ==
    /\ outcome = "Confirmed" =>
          /\ pc = "done" /\ nPoll >= 1 /\ nFailed = 0
          /\ PollReceived /\ SaysStatus(poll, S_confirmed)
    /\ inflight.kind = "poll" => inflight.payload.confirmations = req.confirmations

\* C1 witness: a run that succeeded on a response without a numeric count.
C1_Witness ==
    /\ outcome = "Confirmed"
    /\ Get(poll.text.value, "confirmations").t # "number"

\* C2: the submission POST is sent at most once in a run, whatever the
\* submission's outcome and however many polls follow; once run() is past
\* its first call exactly one submission has been sent.
C2_SubmitAtMostOnce ==
    /\ nSubmit <= 1
    /\ pc \in {"submitting", "loop", "polling", "sleeping"} => nSubmit = 1
    /\ inflight.kind = "submit" => pc = "submitting" /\ nPoll = 0

\* C2 witness: polls have repeated after one submission.
C2_Witness == nSubmit = 1 /\ nPoll >= 2 /\ nSleep >= 2 /\ pc = "loop"

\* Spec 4.1's invalid parameters: a text is missing when it is empty after
\* trimming; a number is invalid when it is supplied and not finite or
\* below 1.
Blank(s) == Trim(s) = <<>>

IdentifierMissing == Blank(inputs["github-id"]) /\ Blank(env["GITHUB_REPOSITORY_ID"])

IdentifierNotFinite ==
    /\ ~IdentifierMissing
    /\ Number(IF Blank(inputs["github-id"]) THEN env["GITHUB_REPOSITORY_ID"]
              ELSE inputs["github-id"]).k # "fin"

BranchMissing == Blank(inputs["branch"]) /\ Blank(env["GITHUB_REF_NAME"])

NumberInvalid(s) ==
    /\ ~Blank(s)
    /\ Number(s).k # "fin" \/ Number(s).n < Number(s).d

InvalidParameters ==
    \/ IdentifierMissing
    \/ IdentifierNotFinite
    \/ BranchMissing
    \/ NumberInvalid(inputs["confirmations"])
    \/ NumberInvalid(inputs["poll-interval-seconds"])
    \/ NumberInvalid(inputs["max-wait-seconds"])

NoOutputSet == \A o \in OutputNames : outputs[o].t = "undefined"

\* C3 as stated: with an invalid parameter (identifier missing or not
\* finite, branch missing, a numeric knob not finite or below 1) no
\* submission POST and no status POST is ever sent, no output is set, and
\* the run ends with one failure report.
C3_InvalidParametersMeanNoNetwork ==
    InvalidParameters =>
        /\ nSubmit = 0 /\ nPoll = 0 /\ inflight.kind = "none"
        /\ NoOutputSet
        /\ pc \in {"start", "done"}
        /\ pc = "done" => nFailed = 1

\* The submission response decodes: its body is not empty and is JSON.
SubmitDecodes == submit.text.src # "" /\ submit.text.parses

\* JSON that decodes to null, false, 0 or "".
FalsyJson(x) ==
    \/ x.t = "null"
    \/ x.t = "string" /\ x.v = <<>>
    \/ x.t = "number" /\ x.v.n = 0

\* The decoded submission response has no transaction identifier (absent or
\* empty).
SubmitLacksTxHash ==
    LET h == Get(submit.text.value, "tx_hash") IN
    h.t = "undefined" \/ h.t = "null" \/ (h.t = "string" /\ h.v = <<>>)

NoPollNoSleep == nPoll = 0 /\ nSleep = 0 /\ pc = "done"

\* C4 as stated: polls and sleeps happen only after a 2xx submission with a
\* decodable body and a transaction identifier; a non-2xx submission ends
\* as SubmissionRejected, a 2xx one with an empty or non-JSON body as
\* EmptyResponse, a 2xx decoded body without tx_hash as NoTransactionId,
\* each with no poll and no sleep.
C4_SubmissionOutcomesAsStated ==
    /\ (nPoll > 0 \/ nSleep > 0) =>
          /\ SubmitReceived /\ ResOk(submit.status)
          /\ SubmitDecodes /\ ~SubmitLacksTxHash
    /\ SubmitReceived =>
          /\ ~ResOk(submit.status) =>
                outcome = "SubmissionRejected" /\ NoPollNoSleep
          /\ ResOk(submit.status) /\ ~SubmitDecodes =>
                outcome = "EmptyResponse" /\ NoPollNoSleep
          /\ ResOk(submit.status) /\ SubmitDecodes /\ SubmitLacksTxHash =>
                outcome = "NoTransactionId" /\ NoPollNoSleep

\* C4 amended: as C4, except that a 2xx body which is JSON but decodes to
\* null, false, 0 or "" ends the run as EmptyResponse, like an empty or
\* non-JSON body; NoTransactionId is the end of a 2xx body that decodes to
\* any other value and has no (non-empty) tx_hash.
C4_PollOnlyAfterAcceptedSubmission ==
    /\ (nPoll > 0 \/ nSleep > 0) =>
          /\ SubmitReceived /\ ResOk(submit.status)
          /\ SubmitDecodes /\ ~SubmitLacksTxHash
    /\ SubmitReceived =>
          /\ ~ResOk(submit.status) =>
                outcome = "SubmissionRejected" /\ NoPollNoSleep /\ nFailed = 1
          /\ ResOk(submit.status)
               /\ (~SubmitDecodes \/ FalsyJson(submit.text.value)) =>
                outcome = "EmptyResponse" /\ NoPollNoSleep /\ nFailed = 1
          /\ ResOk(submit.status) /\ SubmitDecodes
               /\ ~FalsyJson(submit.text.value) /\ SubmitLacksTxHash =>
                outcome = "NoTransactionId" /\ NoPollNoSleep /\ nFailed = 1

\* C4 witness: a 2xx submission whose body is the JSON text null has ended
\* the run.
C4_Witness ==
    /\ SubmitReceived /\ ResOk(submit.status) /\ SubmitDecodes
    /\ submit.text.value.t = "null"
    /\ pc = "done"

\* At least maxWaitSeconds of time have passed since startedAt.
WaitedMaxWait == (now - startedAt) * req.maxWaitSeconds.d >= req.maxWaitSeconds.n * 1000

TimesOutHere ==
    /\ pc' = "done" /\ outcome' = "ConfirmationTimeout"
    /\ nPoll' = nPoll /\ nSleep' = nSleep /\ nFailed' = nFailed + 1
    /\ inflight' = inflight

\* C5 as stated: at the start of a polling iteration, if the time elapsed
\* since the submission is at least maxWaitSeconds, the run ends with
\* ConfirmationTimeout and sends no further poll.  run() compares the whole
\* seconds elapsed (rounded down) with maxWaitSeconds, so with a fractional
\* maxWaitSeconds it polls again although maxWaitSeconds have passed.
C5_TimeoutWhenElapsedReachesMaxWait ==
    [][(pc = "loop" /\ WaitedMaxWait) => TimesOutHere]_vars

\* The poll response p is transient as C6 has it: a non-2xx status whatever
\* the body, or a 2xx status with an empty or undecodable body.
TransientResponse(p) ==
    \/ ~(p.status \in 200..299)
    \/ p.text.src = ""
    \/ ~p.text.parses

\* C6 as stated (its last clause): a run that has polled ends only through
\* 'confirmed', 'failed' or the deadline.
C6_EndsOnlyByConfirmedFailedDeadline ==
    (pc = "done" /\ nPoll >= 1) =>
        outcome \in {"Confirmed", "TransactionFailed", "ConfirmationTimeout"}

\* C6 amended: a transient poll response never ends the run: the run
\* sleeps exactly once, for at least pollIntervalSeconds, and is back at
\* the deadline check; a run that has polled ends only through 'confirmed',
\* 'failed', the deadline, or an exception that run()'s catch-all reports
\* (a status call that throws).
C6_TransientPollNeverEndsRun ==
    [][/\ (pc = "polling" /\ poll'.status # 0 /\ TransientResponse(poll')) =>
            /\ pc' = "sleeping" /\ outcome' = "running"
            /\ nSleep' = nSleep + 1 /\ nPoll' = nPoll /\ nFailed' = nFailed
       /\ pc = "sleeping" =>
            /\ pc' = "loop" /\ outcome' = "running"
            /\ nSleep' = nSleep /\ nPoll' = nPoll /\ nFailed' = nFailed
            /\ (now' - now) * req.pollIntervalSeconds.d
                 >= req.pollIntervalSeconds.n * 1000 - req.pollIntervalSeconds.d
       /\ (nPoll >= 1 /\ pc # "done" /\ pc' = "done") =>
            outcome' \in {"Confirmed", "TransactionFailed", "ConfirmationTimeout",
                          "Exception"}]_vars

\* C6 witness: the run sleeps after a non-2xx response whose body says
\* 'failed'.
C6_Witness ==
    /\ pc = "sleeping" /\ outcome = "running"
    /\ PollReceived /\ ~ResOk(poll.status)
    /\ Get(poll.text.value, "status").t = "string"
    /\ ToLowerCase(Get(poll.text.value, "status").v) = S_failed

\* C7 as stated: once the transaction identifier is known, every status-poll
\* payload and every message emitted afterwards carries it.  Checked on the
\* messages run() composes itself from the first poll on: the log lines
\* after a poll response and the failure messages; the catch-all's message,
\* which is the exception's own text, is left aside.
C7_EveryMessageCarriesTxHash ==
    /\ inflight.kind = "poll" => SameValue(inflight.payload.tx_hash, txHash)
    /\ (nPoll >= 1 /\ outcome # "Exception") =>
          \A i \in 1..Len(log) : Mentions(log[i], txHash)

\* C8 as stated: a 2xx poll response with a decoded body is decided by its
\* status field alone: 'confirmed' in any letter case ends the run in
\* success, 'failed' in any letter case in TransactionFailed, and every
\* other value of any shape, or none, leaves the run pending: it sleeps and
\* does not end.
C8_StatusFieldAloneDecides ==
    (PollReceived /\ ResOk(poll.status) /\ poll.text.src # "" /\ poll.text.parses
       /\ ~FalsyJson(poll.text.value)) =>
        IF SaysStatus(poll, S_confirmed) THEN pc = "done" /\ outcome = "Confirmed"
        ELSE IF SaysStatus(poll, S_failed)
             THEN pc = "done" /\ outcome = "TransactionFailed"
        ELSE pc = "sleeping" /\ outcome = "running"

\* The response field an output is copied from.
FieldOfOutput(o) ==
    CASE o = "tx-hash"      -> Get(submit.text.value, "tx_hash")
      [] o = "commit-hash"  -> Get(submit.text.value, "commit_hash")
      [] o = "manifest-cid" -> Get(submit.text.value, "manifest_cid")
      [] o = "merkle-root"  -> Get(submit.text.value, "merkle_root")

\* The submission was answered 2xx with a decoded body.
SubmitAccepted ==
    /\ SubmitReceived /\ ResOk(submit.status) /\ SubmitDecodes
    /\ ~FalsyJson(submit.text.value)

\* C9 as stated: after a 2xx submission with a decoded body an output is set
\* exactly when its response field is present, and then to that field.
C9_OutputSetIffFieldPresent ==
    SubmitAccepted =>
        \A o \in OutputNames :
            (outputs[o].t # "undefined") <=> (FieldOfOutput(o).t # "undefined")

\* C9 amended: after a 2xx submission with a decoded body an output is set
\* exactly when its response field is present and not empty, to that
\* field's value; this holds from the state before the first poll to the end
\* of the run, however it ends; an absent or empty field, and every run
\* without such a submission response, leaves the output unset.
C9_OutputSetIffFieldNonEmpty ==
    \A o \in OutputNames :
        IF SubmitAccepted /\ FieldOfOutput(o).t # "undefined"
           /\ ~FalsyJson(FieldOfOutput(o))
        THEN SameValue(outputs[o], FieldOfOutput(o))
        ELSE outputs[o].t = "undefined"

\* C9 witness: a run that polled and ended in TransactionFailed keeps
\* manifest-cid and merkle-root set, and commit-hash unset for an empty
\* commit_hash.
C9_Witness ==
    /\ pc = "done" /\ outcome = "TransactionFailed"
    /\ outputs["manifest-cid"].t = "string" /\ outputs["merkle-root"].t = "string"
    /\ outputs["tx-hash"].t = "string"
    /\ FieldOfOutput("commit-hash").t = "string" /\ outputs["commit-hash"].t = "undefined"

\* C10 as stated: after n still-pending responses and then a 'confirmed'
\* response with a numeric confirmations value c, the run has sent n+1
\* polls, slept n times, ended in success, and its report carries c.
C10_PendingThenConfirmedReportsCount ==
    (pc = "done" /\ PollReceived /\ SaysStatus(poll, S_confirmed) /\ pendingOnly
       /\ Get(poll.text.value, "confirmations").t = "number") =>
        /\ outcome = "Confirmed" /\ nFailed = 0
        /\ nPoll = nSleep + 1
        /\ \E i \in 1..Len(log) :
              Mentions(log[i], Get(poll.text.value, "confirmations"))

\* A JavaScript number that is a finite integer.
IsInteger(x) == x.k = "fin" /\ x.n % x.d = 0

\* A JavaScript number that is finite and at least 1.
AtLeastOne(x) == x.k = "fin" /\ x.n >= x.d

\* run() is past its validation with a request built.
RequestBuilt == pc # "start" /\ outcome = "running"

\* C11 as stated, for the requests the Builder produces: the repository
\* identifier is a finite integer, requiredConfirmations an integer >= 1,
\* pollIntervalSeconds >= 1 and maxWaitSeconds >= 1, and an absent input
\* gives the default 1 / 5 / 600.  run() takes any finite number for the
\* identifier and any finite number >= 1 for confirmations, fractions
\* included.
C11_RequestFieldsWithinBounds ==
    RequestBuilt =>
        /\ IsInteger(req.githubId)
        /\ IsInteger(req.confirmations) /\ AtLeastOne(req.confirmations)
        /\ AtLeastOne(req.pollIntervalSeconds)
        /\ AtLeastOne(req.maxWaitSeconds)
        /\ inputs["confirmations"] = <<>> => req.confirmations = Fin(1, 1)
        /\ inputs["poll-interval-seconds"] = <<>> => req.pollIntervalSeconds = Fin(5, 1)
        /\ inputs["max-wait-seconds"] = <<>> => req.maxWaitSeconds = Fin(600, 1)

\* C12 as stated: the submission POST goes to the endpoint URL exactly as
\* the caller supplied it, trailing slashes included.  run() posts to the
\* URL with its trailing slashes stripped.
C12_SubmissionUrlVerbatim ==
    inflight.kind = "submit" => inflight.url = inputs["api-url"]

\* The endpoint without its trailing slashes: its longest prefix that does
\* not end in a slash.
EndpointStripped ==
    LET u == inputs["api-url"]
        k == CHOOSE i \in 0..Len(u) :
                /\ i = 0 \/ u[i] # "/"
                /\ \A j \in (i + 1)..Len(u) : u[j] = "/"
    IN  SubSeq(u, 1, k)

\* The status URL C13 describes: the override without its surrounding
\* blanks when it is not blank, else the stripped endpoint and '/status'.
ExpectedStatusUrl ==
    IF Trim(inputs["status-api-url"]) # <<>> THEN Trim(inputs["status-api-url"])
    ELSE EndpointStripped \o <<"/","s","t","a","t","u","s">>

\* C13: every status poll is sent to the override when one is given (not
\* blank), otherwise to the endpoint with all trailing slashes removed
\* followed by '/status'; the status URL is settled when the submission is
\* sent and is the same from then on, for every poll of the run.
C13_StatusUrlFixedAndDerived ==
    /\ inflight.kind = "poll" => inflight.url = ExpectedStatusUrl
    /\ nSubmit >= 1 => req.statusApiUrl = ExpectedStatusUrl

\* C13 witness: the second poll of a run goes to the URL derived from an
\* endpoint that was given with trailing slashes.
C13_Witness ==
    /\ inflight.kind = "poll" /\ nPoll = 2
    /\ inputs["status-api-url"] = <<>>
    /\ inputs["api-url"] # EndpointStripped

\* The submission response carries a structured error field (not empty).
SubmitErrorField ==
    IF SubmitDecodes /\ Get(submit.text.value, "error").t = "string"
       /\ Get(submit.text.value, "error").v # <<>>
    THEN Get(submit.text.value, "error")
    ELSE Undefined

\* C14: a non-2xx submission ends the run in failure, with one message that
\* carries the status code, the status text and then the structured error
\* field when the body has one, otherwise the raw body text, and nothing
\* more when the body is empty.
C14_RejectionMessage ==
    (SubmitReceived /\ ~ResOk(submit.status)) =>
        /\ pc = "done" /\ outcome = "SubmissionRejected" /\ nFailed = 1
        /\ Len(log) = 1 /\ log[1].level = "failed"
        /\ Mentions(log[1], JsInt(submit.status))
        /\ Mentions(log[1], JsText(submit.statusText))
        /\ IF SubmitErrorField.t = "string"
           THEN /\ Mentions(log[1], SubmitErrorField)
                /\ ~Mentions(log[1], JsText(submit.text.src))
           ELSE IF submit.text.src # ""
           THEN Mentions(log[1], JsText(submit.text.src))
           ELSE \A i \in 1..Len(log[1].parts) :
                    log[1].parts[i].k = "val" =>
                        \/ SameValue(log[1].parts[i].x, JsInt(submit.status))
                        \/ SameValue(log[1].parts[i].x, JsText(submit.statusText))

\* C14 witness: a rejected submission whose body had a structured error
\* field has been reported.
C14_Witness ==
    /\ outcome = "SubmissionRejected" /\ submit.status = 422
    /\ SubmitErrorField.t = "string"
    /\ Mentions(log[1], SubmitErrorField)

\* The ways run() ends in failure.
FailureOutcomes ==
    {"Exception", "MissingIdentifier", "InvalidIdentifier", "MissingBranch",
     "InvalidConfirmations", "InvalidPollInterval", "InvalidMaxWait",
     "SubmissionRejected", "EmptyResponse", "NoTransactionId",
     "TransactionFailed", "ConfirmationTimeout"}

\* One final outcome: the run has an outcome exactly when it has ended;
\* success comes without any failure report and after a poll, a failure
\* with exactly one report.
OneOutcome ==
    /\ pc = "done" <=> outcome # "running"
    /\ outcome = "running" => nFailed = 0
    /\ outcome = "Confirmed" => nFailed = 0 /\ nPoll >= 1
    /\ outcome \in FailureOutcomes => nFailed = 1
    /\ outcome \in FailureOutcomes \cup {"Confirmed", "running"}
    /\ pc = "done" => inflight.kind = "none"

\* The steps of the confirmation phase: from the head of the loop to a poll
\* or to the timeout, from a poll to the sleep or to an end, from the sleep
\* back to the head of the loop.
PhaseStep ==
    /\ pc = "loop" =>
          \/ pc' = "polling"
          \/ pc' = "done" /\ outcome' = "ConfirmationTimeout"
    /\ pc = "polling" =>
          \/ pc' = "sleeping"
          \/ pc' = "done" /\ outcome' \in {"Confirmed", "TransactionFailed", "Exception"}
    /\ pc = "sleeping" => pc' = "loop"

ValidationDone == pc = "done" /\ nSubmit = 0

\* C16 as stated, in its particular case: when the repository identifier is
\* missing (and the credential is given), the failure reported is
\* MissingIdentifier, also when the endpoint URL is missing as well.  run()
\* reads the required endpoint first, and reports that.
C16_MissingIdentifierReportedFirst ==
    (ValidationDone /\ IdentifierMissing /\ inputs["api-key"] # <<>>) =>
        /\ outcome = "MissingIdentifier"
        /\ Len(log) = 1 /\ log[1].level = "failed"
        /\ ~HasLit(log[1], "Input required and not supplied: api-url")

\* The endpoint, the credential and the repository identifier are in order,
\* so that the validation gets to the branch.
BranchRuleReached ==
    /\ pc # "start"
    /\ inputs["api-url"] # <<>> /\ inputs["api-key"] # <<>>
    /\ ~IdentifierMissing /\ ~IdentifierNotFinite

\* C17 as stated: the branch is the trimmed explicit input when that is not
\* empty, otherwise the environment fallback; when both are empty after
\* trimming the run fails with MissingBranch, so that no request is built
\* from a fallback of blanks.  run() does not trim the fallback.
C17_BlankBranchNeverYieldsRequest ==
    BranchRuleReached =>
        /\ BranchMissing => outcome = "MissingBranch" /\ nSubmit = 0
        /\ RequestBuilt =>
              /\ Trim(req.branch) # <<>>
              /\ req.branch = IF Blank(inputs["branch"]) THEN env["GITHUB_REF_NAME"]
                               ELSE Trim(inputs["branch"])

\* A call is in flight exactly while run() awaits it; the submission is in
\* flight before any poll and before its own response; a poll is in flight
\* after the submission response, with the result of the iteration before
\* it gone and every earlier poll followed by its sleep.
OneCallInFlight ==
    /\ inflight.kind # "none" <=> pc \in {"submitting", "polling"}
    /\ inflight.kind = "submit" => pc = "submitting" /\ nPoll = 0 /\ ~SubmitReceived
    /\ inflight.kind = "poll" =>
          /\ pc = "polling" /\ SubmitReceived /\ ~PollReceived
          /\ nSleep = nPoll - 1

\* A call is sent only when none is in flight: the submission first, a poll
\* only from the head of the loop, after the submission response and after
\* as many completed sleeps as polls were sent; a poll's response leads to
\* the sleep or to the end, and the sleep lasts its delay before the loop
\* is back at its head.
SequentialStep ==
    /\ nSubmit' # nSubmit =>
          inflight.kind = "none" /\ nSubmit = 0 /\ nPoll = 0 /\ inflight'.kind = "submit"
    /\ nPoll' # nPoll =>
          /\ nPoll' = nPoll + 1 /\ pc = "loop" /\ inflight.kind = "none"
          /\ SubmitReceived /\ ~PollReceived /\ nSleep = nPoll
          /\ inflight'.kind = "poll"
    /\ pc = "polling" =>
          /\ pc' \in {"sleeping", "done"} /\ inflight'.kind = "none"
          /\ pc' = "sleeping" => poll'.status # 0 /\ nSleep' = nSleep + 1
    /\ pc = "sleeping" =>
          /\ pc' = "loop" /\ nPoll' = nPoll /\ inflight' = inflight
          /\ now' - now >= DelayMs(req.pollIntervalSeconds)

\* C18: requests are strictly sequential: at most one HTTP call is in
\* flight at any time, the first poll is sent only after the submission
\* response has been read, and poll k+1 only after the response to poll k
\* has been read and the sleep that follows it has completed.
C18_RequestsStrictlySequential ==
    /\ []OneCallInFlight
    /\ [][SequentialStep]_vars

\* C18 witness: the third poll is in flight, after two sleeps.
C18_Witness ==
    /\ inflight.kind = "poll" /\ nPoll = 3 /\ nSleep = 2

\* ceil(x / y) for JavaScript numbers x, y that are finite and positive.
CeilRatio(x, y) == ((x.n * y.d) + (x.d * y.n) - 1) \div (x.d * y.n)

\* C19 as stated, for the number of polls: a run sends at most
\* ceil(maxWaitSeconds / pollIntervalSeconds) status polls (every sleep
\* lasts at least pollIntervalSeconds).  run() compares the whole seconds
\* elapsed with maxWaitSeconds, so with both at 1.5 s a second poll is sent
\* after the first sleep.
C19_PollsAtMostCeilRatio ==
    nSubmit = 1 =>
        nPoll <= CeilRatio(req.maxWaitSeconds, req.pollIntervalSeconds)

\* The run ends here through the catch-all: one failure report, which is
\* the exception's message, and nothing else happens.
EndsByCatchAll ==
    /\ pc' = "done" /\ outcome' = "Exception"
    /\ nFailed = 0 /\ nFailed' = 1
    /\ log' = <<SetFailed(<<Lit("fetch failed")>>)>>
    /\ nSleep' = nSleep /\ nPoll' = nPoll /\ nSubmit' = nSubmit
    /\ inflight'.kind = "none" /\ outputs' = outputs /\ now' = now

\* C20: a status call that throws (the call ends without a response) is
\* not transient: the run ends at once in failure with the exception's
\* message, without sleep and without further poll, whether or not the
\* deadline is reached; a submission call that throws ends the run the
\* same way, with a single failure report.
C20_ThrownCallEndsRun ==
    [][/\ (pc = "polling" /\ poll'.status = 0) => EndsByCatchAll
       /\ (pc = "submitting" /\ submit'.status = 0) => EndsByCatchAll /\ nPoll = 0]_vars

\* C20 witness: the second status call of a run threw before the deadline,
\* and the run has ended by the catch-all.
C20_Witness ==
    /\ pc = "done" /\ outcome = "Exception"
    /\ nPoll = 2 /\ nSleep = 1 /\ ~PollReceived /\ nFailed = 1
    /\ ~DeadlineReached(ElapsedSeconds(now, startedAt), req.maxWaitSeconds)
====
